---- MODULE Spec2Model ----
(***************************************************************************)
(* A model of simple_sir.py: the fourth-order Runge-Kutta integrator       *)
(* runge_kutta and the class SIR_model (its parameters, its mutators, its  *)
(* derivative dydt, simulate_country and plot_model).                      *)
(*                                                                         *)
(* Numbers.  The scalar attributes of SIR_model (gamma, contacts, prob,    *)
(* beta, pop, I0, S0, R0) are Python numbers; the model holds each as the  *)
(* exact rational <<n, d>> its expression denotes (Python's integers are   *)
(* exact; the properties of the scalars compare values built by the same   *)
(* expressions).  The NumPy arrays (initial_conds, the integrator's state  *)
(* vectors) and the integrator's times are binary floating-point numbers:  *)
(* <<m, e>> stands for m * 2^e, every operation rounds its exact result to *)
(* Prec significant bits, to nearest, ties to even, as IEEE-754 does with  *)
(* 53 bits.  Exponents are unbounded: overflow to inf and underflow are    *)
(* not modelled.                                                           *)
(*                                                                         *)
(* Specifications.  Spec: one SIR_model object under any sequence of its   *)
(* methods.  SpecDerived: the same without changeTransRate and             *)
(* simulate_country.  SpecRK: one call of runge_kutta on dydt, an          *)
(* iteration of its loop at a time, from arguments that include times and  *)
(* steps whose sums and differences are rounded.                           *)
(***************************************************************************)
EXTENDS Integers, Sequences, FiniteSets, TLC

\* Significant bits of a floating-point number (53 in the program's float64).
Prec == 6
\* Operations on one SIR_model object in a behaviour of Spec.
MaxOps == 3
\* Loop iterations of one runge_kutta call followed in a behaviour of SpecRK.
MaxIter == 4

----------------------------------------------------------------------------
(* Python evaluates an argument once, before the call: Bind1 and Bind2     *)
(* apply F to the values of their arguments.                               *)

Bind1(v, F(_)) == CHOOSE r \in {F(x) : x \in {v}} : TRUE

Bind2(v, w, F(_, _)) == CHOOSE r \in {F(x, y) : x \in {v}, y \in {w}} : TRUE

----------------------------------------------------------------------------
(* Exact rationals <<n, d>>, d > 0, in lowest terms: the Python scalars.   *)

Abs(x) == IF x < 0 THEN -x ELSE x

Sgn(x) == IF x < 0 THEN -1 ELSE IF x > 0 THEN 1 ELSE 0

RECURSIVE Gcd(_, _)
Gcd(a, b) == IF b = 0 THEN a ELSE Bind2(b, a % b, Gcd)

QNormOf(n, d) ==
  Bind1(Gcd(Abs(n), Abs(d)),
        LAMBDA g : <<Sgn(d) * (n \div g), Abs(d) \div g>>)

QNorm(n, d) == Bind2(n, d, QNormOf)

QInt(n) == <<n, 1>>

QAdd(x, y) ==
  Bind2(x, y, LAMBDA a, b : QNorm(a[1] * b[2] + b[1] * a[2], a[2] * b[2]))

QSub(x, y) ==
  Bind2(x, y, LAMBDA a, b : QNorm(a[1] * b[2] - b[1] * a[2], a[2] * b[2]))

QMul(x, y) == Bind2(x, y, LAMBDA a, b : QNorm(a[1] * b[1], a[2] * b[2]))

QDiv(x, y) == Bind2(x, y, LAMBDA a, b : QNorm(a[1] * b[2], a[2] * b[1]))

----------------------------------------------------------------------------
(* Binary floating point with Prec significant bits: <<m, e>> is m * 2^e,  *)
(* kept canonical (m odd, or <<0, 0>>), so equal numbers are equal pairs.  *)

RECURSIVE BitLen(_)
BitLen(n) == IF n = 0 THEN 0 ELSE 1 + Bind1(n \div 2, BitLen)

RECURSIVE Canon(_, _)
Canon(m, e) ==
  IF m = 0 THEN <<0, 0>>
  ELSE IF m % 2 = 0 THEN Bind2(m \div 2, e + 1, Canon)
  ELSE <<m, e>>

\* The magnitude a of k bits more than Prec, rounded to nearest, ties to even.
RoundBits(a, k) ==
  LET q    == a \div (2^k)
      r    == a % (2^k)
      half == 2^(k - 1)
  IN  IF r > half \/ (r = half /\ q % 2 = 1) THEN q + 1 ELSE q

RoundOf(m, e) ==
  Bind1(BitLen(Abs(m)) - Prec,
        LAMBDA k : IF k <= 0 THEN Canon(m, e)
                   ELSE Canon(Sgn(m) * RoundBits(Abs(m), k), e + k))

\* m * 2^e rounded to Prec significant bits.
RoundNE(m, e) == Bind2(m, e, RoundOf)

FromInt(n) == RoundNE(n, 0)

FNeg(a) == Bind1(a, LAMBDA x : <<-x[1], x[2]>>)

\* a + b.  An operand below a quarter of the other's unit in the last place
\* cannot change the rounded sum; otherwise the exact sum is rounded.
FAddOf(a, b) ==
  LET la == a[2] + BitLen(Abs(a[1]))
      lb == b[2] + BitLen(Abs(b[1]))
      e  == IF a[2] < b[2] THEN a[2] ELSE b[2]
  IN  IF a[1] = 0 THEN b
      ELSE IF b[1] = 0 THEN a
      ELSE IF lb <= la - Prec - 2 THEN a
      ELSE IF la <= lb - Prec - 2 THEN b
      ELSE RoundNE(a[1] * 2^(a[2] - e) + b[1] * 2^(b[2] - e), e)

FAdd(a, b) == Bind2(a, b, FAddOf)

FSub(a, b) == FAdd(a, FNeg(b))

FMul(a, b) == Bind2(a, b, LAMBDA x, y : RoundNE(x[1] * y[1], x[2] + y[2]))

\* a / b, b # 0: 2 * Prec + 2 quotient bits and a sticky bit, then rounded.
FDivOf(a, b) ==
  LET s   == 2 * Prec + 2
      n   == Abs(a[1]) * 2^s
      d   == Abs(b[1])
      q   == n \div d
      stk == IF n % d = 0 THEN 0 ELSE 1
  IN  RoundNE(Sgn(a[1]) * Sgn(b[1]) * (2 * q + stk), a[2] - b[2] - s - 1)

FDiv(a, b) == Bind2(a, b, FDivOf)

\* a < b: the rounded difference has the sign of the exact one.
FLt(a, b) == FSub(a, b)[1] < 0

FLe(a, b) == ~FLt(b, a)

\* Python's min(a, b): b when b < a, else a.
FMin(a, b) == Bind2(a, b, LAMBDA x, y : IF FLt(y, x) THEN y ELSE x)

\* The quotient q and remainder r of a * 2^k by d, from those of a by d,
\* one bit at a time.
RECURSIVE LongDiv(_, _, _, _)
LongDiv(q, r, d, k) ==
  IF k = 0 THEN <<q, r>>
  ELSE IF r >= d - r THEN LongDiv(2 * q + 1, r - (d - r), d, k - 1)
  ELSE LongDiv(2 * q, r + r, d, k - 1)

\* n / d rounded once: enough quotient bits and a sticky bit, then rounded.
ToFloatOf(n, d) ==
  LET a   == Abs(n)
      gap == BitLen(a) - BitLen(d)
      k   == IF gap >= Prec + 3 THEN 0 ELSE Prec + 3 - gap
      qr  == LongDiv(a \div d, a % d, d, k)
      stk == IF qr[2] = 0 THEN 0 ELSE 1
  IN  RoundNE(Sgn(n) * (2 * qr[1] + stk), -k - 1)

\* A Python scalar as a floating-point number: the true division S0/pop, or
\* the attribute read in dydt.
ToFloat(q) == Bind1(q, LAMBDA x : Bind2(x[1], x[2], ToFloatOf))

----------------------------------------------------------------------------
(* Vectors of three floating-point numbers: the NumPy arrays [S, I, R].    *)

VAdd(u, v) ==
  Bind2(u, v, LAMBDA a, b :
    <<FAdd(a[1], b[1]), FAdd(a[2], b[2]), FAdd(a[3], b[3])>>)

\* k * v for a scalar k.
VScale(k, v) ==
  Bind2(k, v, LAMBDA c, a : <<FMul(c, a[1]), FMul(c, a[2]), FMul(c, a[3])>>)

\* v / k for a scalar k.
VDiv(v, k) ==
  Bind2(v, k, LAMBDA a, c : <<FDiv(a[1], c), FDiv(a[2], c), FDiv(a[3], c)>>)

----------------------------------------------------------------------------
VARIABLES
  gamma,          \* recovery rate
  contacts,       \* contacts per day
  prob,           \* probability of transmission in a contact
  beta,           \* transmission rate
  pop,            \* population size
  I0, S0, R0,     \* initial infected, susceptible, recovered
  initial_conds,  \* the array [S0/pop, I0/pop, R0/pop] as last computed
  stdout,         \* lines printed so far
  last,           \* the operation performed last and its argument
  nops,           \* operations performed
  rk              \* the frame of the runge_kutta call of the last operation

vars == <<gamma, contacts, prob, beta, pop, I0, S0, R0, initial_conds,
          stdout, last, nops, rk>>

NoCall == [pc |-> "none"]

----------------------------------------------------------------------------
(* SIR_model.dydt and runge_kutta.                                         *)

\* dydt with the recoveries added to the infected instead of taken from them.
dydtRecoveriesAdded(b, g, y) ==
  <<FMul(FMul(y[1], FNeg(b)), y[2]),
    FAdd(FMul(FMul(y[2], b), y[1]), FMul(g, y[2])),
    FMul(g, y[2])>>

\* dydt with the sign of the recovered component flipped.
dydtRecoveredLost(b, g, y) ==
  <<FMul(FMul(y[1], FNeg(b)), y[2]),
    FSub(FMul(FMul(y[2], b), y[1]), FMul(g, y[2])),
    FNeg(FMul(g, y[2]))>>

\* The three assignments to arr, for beta and gamma as floating-point numbers.
dydtOf(b, g, y) ==
  <<FMul(FMul(y[1], FNeg(b)), y[2]),
    FSub(FMul(FMul(y[2], b), y[1]), FMul(g, y[2])),
    FMul(g, y[2])>>

\* dydt(self, x, y): the time x is not read.
dydt(x, y) ==
  Bind2(<<ToFloat(beta), ToFloat(gamma)>>, y,
        LAMBDA bg, v : dydtOf(bg[1], bg[2], v))

\* The frame on entry to the loop: X = [t_i], Y = [initial_cond], y = initial_cond.
\* arg is the content of the caller's array initial_cond, which y and Y[0]
\* refer to; calls lists the invocations of func, Ks the four slopes of the
\* last iteration.
RKEnter(t_i, t_f, initial_cond, h) ==
  [pc |-> "loop", t_start |-> t_i, step |-> h,
   t_i |-> t_i, t_f |-> t_f, h |-> h, y |-> initial_cond,
   X |-> <<t_i>>, Y |-> <<initial_cond>>, arg |-> initial_cond,
   calls |-> <<>>, Ks |-> <<>>]

\* One invocation of func at (t, y), scaled by h: the call and the slope.
Stage(h, t, y) ==
  Bind2(t, y, LAMBDA a, b :
    [call |-> [t |-> a, y |-> b], K |-> VScale(h, dydt(a, b))])

\* y + (K0 + 2 * K1 + 2 * K2 + K3) / 6
Combine(y, K0, K1, K2, K3) ==
  VAdd(y, VDiv(VAdd(VAdd(VAdd(K0, VScale(FromInt(2), K1)),
                         VScale(FromInt(2), K2)), K3),
               FromInt(6)))

\* The body of the while loop up to the new y and t_i: the clipped step,
\* the four invocations of func in order and the four slopes.
RKSlopes(f) ==
  Bind1(FMin(f.h, FSub(f.t_f, f.t_i)), LAMBDA h :
  Bind1(Stage(h, f.t_i, f.y), LAMBDA s0 :
  Bind1(Stage(h, FAdd(f.t_i, FDiv(h, FromInt(2))),
              VAdd(f.y, VDiv(s0.K, FromInt(2)))), LAMBDA s1 :
  Bind1(Stage(h, FAdd(f.t_i, FDiv(h, FromInt(2))),
              VAdd(f.y, VDiv(s1.K, FromInt(2)))), LAMBDA s2 :
  Bind1(Stage(h, FAdd(f.t_i, h), VAdd(f.y, s2.K)), LAMBDA s3 :
    [h |-> h,
     calls |-> <<s0.call, s1.call, s2.call, s3.call>>,
     Ks |-> <<s0.K, s1.K, s2.K, s3.K>>,
     y |-> Combine(f.y, s0.K, s1.K, s2.K, s3.K),
     t |-> FAdd(f.t_i, h)])))))

\* The iteration with y += ... in place of y = y + ...: the one array that
\* the caller's initial_cond, y and every entry of Y refer to is overwritten.
RKIterateInPlace(f) ==
  Bind1(RKSlopes(f), LAMBDA s :
    [f EXCEPT !.h = s.h, !.y = s.y, !.t_i = s.t,
              !.X = Append(f.X, s.t),
              !.Y = [i \in 1..(Len(f.Y) + 1) |-> s.y],
              !.arg = s.y,
              !.calls = f.calls \o s.calls, !.Ks = s.Ks])

\* One iteration of the while loop: y = y + ... binds y to a new array,
\* so the caller's array is left as it was.
RKIterate(f) ==
  Bind1(RKSlopes(f), LAMBDA s :
    [f EXCEPT !.h = s.h, !.y = s.y, !.t_i = s.t,
              !.X = Append(f.X, s.t), !.Y = Append(f.Y, s.y),
              !.calls = f.calls \o s.calls, !.Ks = s.Ks])

\* while t_i < t_f
RKContinues(f) == FLt(f.t_i, f.t_f)

\* The whole call: iterate while t_i < t_f, then return (X, Y).
RECURSIVE RKRun(_)
RKRun(f) ==
  IF RKContinues(f) THEN Bind1(RKIterate(f), RKRun)
  ELSE [f EXCEPT !.pc = "done"]

runge_kutta(t_i, t_f, initial_cond, h) ==
  Bind1(RKEnter(t_i, t_f, initial_cond, h), RKRun)

----------------------------------------------------------------------------
(* The country data of simulate_country.                                   *)

beta_per_country ==
  ("Australia" :> <<29, 100>>) @@ ("Austria" :> <<29, 100>>) @@ ("Belgium" :> <<27, 100>>)
  @@ ("Brazil" :> <<37, 100>>) @@ ("Canada" :> <<33, 100>>) @@ ("Chile" :> <<37, 100>>)
  @@ ("China" :> <<3, 2500>>) @@ ("Czechia" :> <<29, 100>>) @@ ("Denmark" :> <<3, 25>>)
  @@ ("Ecuador" :> <<12, 25>>) @@ ("France" :> <<6, 25>>) @@ ("Germany" :> <<7, 25>>)
  @@ ("Iran" :> <<11, 100>>) @@ ("Ireland" :> <<7, 20>>) @@ ("Israel" :> <<3, 10>>)
  @@ ("Italy" :> <<19, 100>>) @@ ("Japan" :> <<77, 1000>>) @@ ("South Korea" :> <<1, 50>>)
  @@ ("Luxembourg" :> <<21, 50>>) @@ ("Malaysia" :> <<13, 50>>) @@ ("Netherlands" :> <<1, 4>>)
  @@ ("Norway" :> <<3, 20>>) @@ ("Pakistan" :> <<31, 100>>) @@ ("Poland" :> <<31, 100>>)
  @@ ("Spain" :> <<7, 25>>) @@ ("Sweden" :> <<3, 20>>) @@ ("Switzerland" :> <<7, 25>>)
  @@ ("United States" :> <<19, 50>>) @@ ("United Kingdom" :> <<29, 100>>)

country_pop ==
  ("Australia" :> <<21515754, 1>>) @@ ("Austria" :> <<8205000, 1>>) @@ ("Belgium" :> <<10403000, 1>>)
  @@ ("Brazil" :> <<201103330, 1>>) @@ ("Canada" :> <<33679000, 1>>) @@ ("Chile" :> <<16746491, 1>>)
  @@ ("China" :> <<1330044000, 1>>) @@ ("Czechia" :> <<10476000, 1>>) @@ ("Denmark" :> <<5484000, 1>>)
  @@ ("Ecuador" :> <<14790608, 1>>) @@ ("France" :> <<64768389, 1>>) @@ ("Germany" :> <<7, 25>>)
  @@ ("Iran" :> <<76923300, 1>>) @@ ("Ireland" :> <<4622917, 1>>) @@ ("Israel" :> <<7353985, 1>>)
  @@ ("Italy" :> <<60340328, 1>>) @@ ("Japan" :> <<127288000, 1>>) @@ ("South Korea" :> <<48422644, 1>>)
  @@ ("Luxembourg" :> <<497538, 1>>) @@ ("Malaysia" :> <<28274729, 1>>) @@ ("Netherlands" :> <<16645000, 1>>)
  @@ ("Norway" :> <<5009150, 1>>) @@ ("Pakistan" :> <<184404791, 1>>) @@ ("Poland" :> <<38500000, 1>>)
  @@ ("Spain" :> <<46505963, 1>>) @@ ("Sweden" :> <<9828655, 1>>) @@ ("Switzerland" :> <<7581000, 1>>)
  @@ ("United States" :> <<310232863, 1>>) @@ ("United Kingdom" :> <<62348447, 1>>)

current_cases ==
  ("Australia" :> <<701, 1>>) @@ ("Austria" :> <<1290, 1>>) @@ ("Belgium" :> <<30604, 1>>)
  @@ ("Brazil" :> <<83720, 1>>) @@ ("Canada" :> <<31760, 1>>) @@ ("Chile" :> <<14248, 1>>)
  @@ ("China" :> <<148, 1>>) @@ ("Czechia" :> <<3372, 1>>) @@ ("Denmark" :> <<1700, 1>>)
  @@ ("Ecuador" :> <<23921, 1>>) @@ ("France" :> <<94310, 1>>) @@ ("Germany" :> <<19375, 1>>)
  @@ ("Iran" :> <<14567, 1>>) @@ ("Ireland" :> <<4204, 1>>) @@ ("Israel" :> <<4831, 1>>)
  @@ ("Italy" :> <<84842, 1>>) @@ ("Japan" :> <<9150, 1>>) @@ ("South Korea" :> <<1008, 1>>)
  @@ ("Luxembourg" :> <<226, 1>>) @@ ("Malaysia" :> <<1552, 1>>) @@ ("Netherlands" :> <<36710, 1>>)
  @@ ("Norway" :> <<7848, 1>>) @@ ("Pakistan" :> <<20803, 1>>) @@ ("Poland" :> <<9429, 1>>)
  @@ ("Spain" :> <<63148, 1>>) @@ ("Sweden" :> <<17730, 1>>) @@ ("Switzerland" :> <<2021, 1>>)
  @@ ("United States" :> <<1029198, 1>>) @@ ("United Kingdom" :> <<183329, 1>>)

----------------------------------------------------------------------------
(* The arguments tried.                                                    *)

Transmissions == {<<1, 2>>, <<1, 1>>}

Recoveries == {<<3, 10>>, <<1, 1>>}

PopSizes == {QInt(5000)}

Infecteds == {QInt(10)}

ContactIncreases == {QInt(5)}

JumpRates == {<<1, 2>>}

Percentages == {QInt(0), QInt(50)}

Countries == {"Italy", "Japan", "Atlantis"}

PlotSpans == {<<0, 1>>, <<0, 2>>, <<1, 1>>}

----------------------------------------------------------------------------
(* SIR_model.                                                              *)

\* np.array([S0/pop, I0/pop, R0/pop])
InitialConds(s, i, r, p) ==
  <<ToFloat(QDiv(s, p)), ToFloat(QDiv(i, p)), ToFloat(QDiv(r, p))>>

\* __init__
Init ==
  /\ gamma = <<1, 10>>
  /\ contacts = QInt(10)
  /\ prob = <<19, 1000>>
  /\ beta = QMul(QInt(10), <<19, 1000>>)
  /\ pop = QInt(10000)
  /\ I0 = QInt(1)
  /\ S0 = QSub(QInt(10000), QInt(1))
  /\ R0 = QInt(0)
  /\ initial_conds = InitialConds(QSub(QInt(10000), QInt(1)), QInt(1),
                                  QInt(0), QInt(10000))
  /\ stdout = 0
  /\ last = [op |-> "__init__", arg |-> <<>>]
  /\ nops = 0
  /\ rk = NoCall

\* What every method call does besides its own assignments.
Called(op, arg) ==
  /\ nops < MaxOps
  /\ nops' = nops + 1
  /\ last' = [op |-> op, arg |-> arg]

changeTransRate(transmission) ==
  /\ Called("changeTransRate", transmission)
  /\ beta' = transmission
  /\ rk' = NoCall
  /\ UNCHANGED <<gamma, contacts, prob, pop, I0, S0, R0, initial_conds, stdout>>

changeRecovRate(recovery) ==
  /\ Called("changeRecovRate", recovery)
  /\ gamma' = QMul(gamma, QAdd(QInt(1), recovery))
  /\ rk' = NoCall
  /\ UNCHANGED <<contacts, prob, beta, pop, I0, S0, R0, initial_conds, stdout>>

changePopSize(size) ==
  /\ Called("changePopSize", size)
  /\ pop' = size
  /\ S0' = QSub(size, I0)
  /\ rk' = NoCall
  /\ UNCHANGED <<gamma, contacts, prob, beta, I0, R0, initial_conds, stdout>>

changeInitInfect(num) ==
  /\ Called("changeInitInfect", num)
  /\ I0' = num
  /\ S0' = QSub(pop, num)
  /\ rk' = NoCall
  /\ UNCHANGED <<gamma, contacts, prob, beta, pop, R0, initial_conds, stdout>>

\* beta left as it was when contacts changes.
increaseNumContactsByStale(contact) ==
  /\ Called("increaseNumContactsBy", contact)
  /\ contacts' = QAdd(contacts, contact)
  /\ rk' = NoCall
  /\ UNCHANGED <<gamma, prob, beta, pop, I0, S0, R0, initial_conds, stdout>>

increaseNumContactsBy(contact) ==
  /\ Called("increaseNumContactsBy", contact)
  /\ contacts' = QAdd(contacts, contact)
  /\ beta' = QMul(QAdd(contacts, contact), prob)
  /\ rk' = NoCall
  /\ UNCHANGED <<gamma, prob, pop, I0, S0, R0, initial_conds, stdout>>

increaseDiseaseJumpRateBy(percent) ==
  /\ Called("increaseDiseaseJumpRateBy", percent)
  /\ prob' = QMul(prob, QAdd(QInt(1), percent))
  /\ beta' = QMul(QMul(prob, QAdd(QInt(1), percent)), contacts)
  /\ rk' = NoCall
  /\ UNCHANGED <<gamma, contacts, pop, I0, S0, R0, initial_conds, stdout>>

changePercentPopInateImmune(percentage) ==
  LET total_immune == QMul(QDiv(pop, QInt(100)), percentage)
  IN  /\ Called("changePercentPopInateImmune", percentage)
      /\ R0' = total_immune
      /\ pop' = QSub(pop, total_immune)
      /\ rk' = NoCall
      /\ UNCHANGED <<gamma, contacts, prob, beta, I0, S0, initial_conds, stdout>>

restore_defaults ==
  /\ Called("restore_defaults", <<>>)
  /\ gamma' = <<1, 4>>
  /\ contacts' = QInt(20)
  /\ prob' = <<1, 40>>
  /\ beta' = QMul(QInt(20), <<1, 40>>)
  /\ pop' = QInt(10000)
  /\ I0' = QInt(1)
  /\ S0' = QSub(QInt(10000), QInt(1))
  /\ R0' = QInt(0)
  /\ rk' = NoCall
  /\ UNCHANGED <<initial_conds, stdout>>

\* simulate_country with S0 and initial_conds recomputed after the except
\* branch too.
SimulateCountryAlwaysRecompute(country) ==
  LET found == country \in DOMAIN beta_per_country
               /\ country \in DOMAIN country_pop
               /\ country \in DOMAIN current_cases
      p == IF found THEN country_pop[country] ELSE pop
      i == IF found THEN current_cases[country] ELSE I0
  IN  [beta |-> IF found THEN beta_per_country[country] ELSE beta,
       pop |-> p, I0 |-> i, S0 |-> QSub(p, i),
       initial_conds |-> InitialConds(QSub(p, i), i, R0, p),
       printed |-> ~found]

\* The try block with S0 computed before I0 is assigned: the old I0 is read.
TryCountryStaleS0(country) ==
  LET found == country \in DOMAIN beta_per_country
               /\ country \in DOMAIN country_pop
               /\ country \in DOMAIN current_cases
      s == IF found THEN QSub(country_pop[country], I0) ELSE S0
  IN  IF ~found
      THEN [beta |-> beta, pop |-> pop, I0 |-> I0, S0 |-> S0,
            initial_conds |-> initial_conds, printed |-> TRUE]
      ELSE [beta |-> beta_per_country[country], pop |-> country_pop[country],
            I0 |-> current_cases[country], S0 |-> s,
            initial_conds |-> InitialConds(s, current_cases[country], R0,
                                           country_pop[country]),
            printed |-> FALSE]

\* The fields after the try block of simulate_country and whether the except
\* branch printed: each lookup raises KeyError before its assignment.
TryCountry(country) ==
  LET cur == [beta |-> beta, pop |-> pop, I0 |-> I0, S0 |-> S0,
              initial_conds |-> initial_conds, printed |-> TRUE]
  IN  IF country \notin DOMAIN beta_per_country THEN cur
      ELSE LET a == [cur EXCEPT !.beta = beta_per_country[country]]
           IN  IF country \notin DOMAIN country_pop THEN a
               ELSE LET b == [a EXCEPT !.pop = country_pop[country]]
                    IN  IF country \notin DOMAIN current_cases THEN b
                        ELSE LET c == [b EXCEPT !.I0 = current_cases[country]]
                                 s == QSub(c.pop, c.I0)
                             IN  [c EXCEPT !.S0 = s,
                                           !.initial_conds =
                                             InitialConds(s, c.I0, R0, c.pop),
                                           !.printed = FALSE]

simulate_country(country) ==
  LET r == TryCountry(country)
  IN  /\ Called("simulate_country", country)
      /\ beta' = r.beta
      /\ pop' = r.pop
      /\ I0' = r.I0
      /\ S0' = r.S0
      /\ initial_conds' = r.initial_conds
      /\ stdout' = IF r.printed THEN stdout + 1 ELSE stdout
      /\ rk' = NoCall
      /\ UNCHANGED <<gamma, contacts, prob, R0>>

\* plot_model up to the plotting: the call of runge_kutta with h = 1 on the
\* array initial_conds itself.
plot_model(t_1, t_2) ==
  /\ Called("plot_model", <<t_1, t_2>>)
  /\ rk' = runge_kutta(FromInt(t_1), FromInt(t_2), initial_conds, FromInt(1))
  /\ initial_conds' = rk'.arg
  /\ UNCHANGED <<gamma, contacts, prob, beta, pop, I0, S0, R0, stdout>>

Next ==
  \/ \E transmission \in Transmissions : changeTransRate(transmission)
  \/ \E recovery \in Recoveries : changeRecovRate(recovery)
  \/ \E size \in PopSizes : changePopSize(size)
  \/ \E num \in Infecteds : changeInitInfect(num)
  \/ \E contact \in ContactIncreases : increaseNumContactsBy(contact)
  \/ \E percent \in JumpRates : increaseDiseaseJumpRateBy(percent)
  \/ \E percentage \in Percentages : changePercentPopInateImmune(percentage)
  \/ restore_defaults
  \/ \E country \in Countries : simulate_country(country)
  \/ \E span \in PlotSpans : plot_model(span[1], span[2])

Spec == Init /\ [][Next]_vars

----------------------------------------------------------------------------
(* runge_kutta called on dydt directly, one loop iteration at a time.      *)

RKStarts == {<<0, 0>>, <<27, -6>>, <<-33, -5>>, <<-17, -4>>}

RKEnds == {<<1, -6>>, <<1, 0>>, <<17, -4>>, <<1, 1>>}

RKSteps == {<<1, -6>>, <<5, -3>>, <<1, 0>>, <<5, -2>>}

RKBetas == {<<1, 2>>, <<1, 1>>}

RKGammas == {<<1, 4>>, <<3, 1>>}

RKStates == {<<<<3, -2>>, <<1, -2>>, <<0, 0>>>>,
             <<<<1, -1>>, <<1, -2>>, <<1, -2>>>>}

InitRK ==
  /\ contacts = QInt(10)
  /\ prob = <<19, 1000>>
  /\ pop = QInt(10000)
  /\ I0 = QInt(1)
  /\ S0 = QSub(QInt(10000), QInt(1))
  /\ R0 = QInt(0)
  /\ initial_conds = InitialConds(QSub(QInt(10000), QInt(1)), QInt(1),
                                  QInt(0), QInt(10000))
  /\ stdout = 0
  /\ nops = 0
  /\ beta \in RKBetas
  /\ gamma \in RKGammas
  /\ \E t_i \in RKStarts, t_f \in RKEnds, h \in RKSteps, y \in RKStates :
       /\ FLe(t_i, t_f)
       /\ rk = RKEnter(t_i, t_f, y, h)
       /\ last = [op |-> "runge_kutta", arg |-> <<t_i, t_f, y, h>>]

RKLoop ==
  /\ rk.pc = "loop"
  /\ RKContinues(rk)
  /\ Len(rk.X) <= MaxIter
  /\ rk' = RKIterate(rk)
  /\ UNCHANGED <<gamma, contacts, prob, beta, pop, I0, S0, R0, initial_conds,
                 stdout, last, nops>>

RKReturn ==
  /\ rk.pc = "loop"
  /\ ~RKContinues(rk)
  /\ rk' = [rk EXCEPT !.pc = "done"]
  /\ UNCHANGED <<gamma, contacts, prob, beta, pop, I0, S0, R0, initial_conds,
                 stdout, last, nops>>

NextRK == RKLoop \/ RKReturn

SpecRK == InitRK /\ [][NextRK]_vars

----------------------------------------------------------------------------
(* The model object driven by every method except the two that assign beta *)
(* from outside: changeTransRate and simulate_country.                     *)

NextDerived ==
  \/ \E recovery \in Recoveries : changeRecovRate(recovery)
  \/ \E size \in PopSizes : changePopSize(size)
  \/ \E num \in Infecteds : changeInitInfect(num)
  \/ \E contact \in ContactIncreases : increaseNumContactsBy(contact)
  \/ \E percent \in JumpRates : increaseDiseaseJumpRateBy(percent)
  \/ \E percentage \in Percentages : changePercentPopInateImmune(percentage)
  \/ restore_defaults
  \/ \E span \in PlotSpans : plot_model(span[1], span[2])

SpecDerived == Init /\ [][NextDerived]_vars

----------------------------------------------------------------------------
(* Properties of the SIR_model object.                                     *)

\* The scalar parameter fields of the object.
params == <<gamma, contacts, prob, beta, pop, I0, S0, R0>>

\* The name is a key of the three country tables.
Known(country) ==
  /\ country \in DOMAIN beta_per_country
  /\ country \in DOMAIN country_pop
  /\ country \in DOMAIN current_cases

\* C2: simulate_country with a name absent from the country tables changes
\* no parameter field and not the initial state vector, whatever calls came
\* before, and prints one notice (the call returns; it does not raise).
C2_AbsentCountryIsNoOp ==
  [][(last'.op = "simulate_country" /\ ~Known(last'.arg))
       => /\ params' = params
          /\ initial_conds' = initial_conds
          /\ stdout' = stdout + 1]_vars

\* An absent name reported after two mutators left the object away from its
\* construction values and the vector stale.
C2_Witness ==
  /\ last.op = "simulate_country"
  /\ last.arg = "Atlantis"
  /\ stdout = 1
  /\ pop = QInt(5000)
  /\ R0 = QInt(5000)
  /\ S0 = QInt(4999)
  /\ initial_conds[1] = ToFloat(<<9999, 10000>>)

\* C3: simulate_country with a name present in the tables sets beta, pop and
\* I0 to the name's table values, S0 to pop - I0 and the initial state vector
\* to [S0/pop, I0/pop, R0/pop] of the new values; gamma, contacts, prob and R0
\* stay as they were, and nothing is printed.
C3_PresentCountryLoads ==
  [][(last'.op = "simulate_country" /\ Known(last'.arg))
       => /\ beta' = beta_per_country[last'.arg]
          /\ pop' = country_pop[last'.arg]
          /\ I0' = current_cases[last'.arg]
          /\ S0' = QSub(country_pop[last'.arg], current_cases[last'.arg])
          /\ initial_conds' = <<ToFloat(QDiv(S0', pop')),
                                ToFloat(QDiv(I0', pop')),
                                ToFloat(QDiv(R0', pop'))>>
          /\ UNCHANGED <<gamma, contacts, prob, R0, stdout>>]_vars

\* Italy loaded into an object whose R0 and gamma were changed before.
C3_Witness ==
  /\ last.op = "simulate_country"
  /\ last.arg = "Italy"
  /\ beta = <<19, 100>>
  /\ pop = QInt(60340328)
  /\ I0 = QInt(84842)
  /\ S0 = QInt(60255486)
  /\ R0 = QInt(5000)
  /\ gamma = <<13, 100>>
  /\ initial_conds[3] = ToFloat(<<5000, 60340328>>)

\* C4: as long as neither changeTransRate nor simulate_country is called,
\* beta = contacts * prob in every state; increaseNumContactsBy(c) leaves
\* contacts = old + c and beta = (old + c) * prob, and
\* increaseDiseaseJumpRateBy(p) leaves prob = old * (1 + p) and
\* beta = contacts * old * (1 + p).
C4_BetaIsContactsTimesProb ==
  /\ beta = QMul(contacts, prob)
  /\ [][/\ beta' = QMul(contacts', prob')
        /\ last'.op = "increaseNumContactsBy"
             => /\ contacts' = QAdd(contacts, last'.arg)
                /\ prob' = prob
                /\ beta' = QMul(QAdd(contacts, last'.arg), prob)
        /\ last'.op = "increaseDiseaseJumpRateBy"
             => /\ prob' = QMul(prob, QAdd(QInt(1), last'.arg))
                /\ contacts' = contacts
                /\ beta' = QMul(contacts,
                                QMul(prob, QAdd(QInt(1), last'.arg)))]_vars

\* Both mutators applied, contacts last: 15 contacts a day at 1.5 times the
\* probability.
C4_Witness ==
  /\ last.op = "increaseNumContactsBy"
  /\ contacts = QInt(15)
  /\ prob = <<57, 2000>>
  /\ beta = <<171, 400>>

\* C5: with no innate immunity (R0 = 0) the susceptible and the infected make
\* up the population: S0 + I0 = pop.
C5_SusceptiblePlusInfectedIsPop ==
  R0 = QInt(0) => QAdd(S0, I0) = pop

\* C6: after restore_defaults every parameter field has its baseline value
\* and the initial state vector is the baseline one, [9999/10000, 1/10000, 0],
\* whatever was done before.
C6_RestoreDefaultsResetsAll ==
  last.op = "restore_defaults"
    => /\ gamma = <<1, 4>>
       /\ contacts = QInt(20)
       /\ prob = <<1, 40>>
       /\ beta = <<1, 2>>
       /\ pop = QInt(10000)
       /\ I0 = QInt(1)
       /\ S0 = QInt(9999)
       /\ R0 = QInt(0)
       /\ initial_conds = <<ToFloat(<<9999, 10000>>), ToFloat(<<1, 10000>>),
                            ToFloat(<<0, 1>>)>>

\* C10: the initial state vector changes only when simulate_country loads a
\* known name: the rate, population, infection, contact, probability and
\* immunity mutators and restore_defaults leave it as it was, and plot_model
\* starts its run from that vector and changes neither it nor any parameter.
C10_InitialCondsOnlySetByLoad ==
  [][/\ initial_conds' # initial_conds
          => (last'.op = "simulate_country" /\ Known(last'.arg))
     /\ last'.op = "plot_model"
          => /\ params' = params
             /\ rk'.Y[1] = initial_conds
             /\ rk'.arg = initial_conds]_vars

\* A run of two steps plotted after a mutator: the vector is still the one
\* built at construction.
C10_Witness ==
  /\ last.op = "plot_model"
  /\ last.arg = <<0, 2>>
  /\ Len(rk.Y) = 3
  /\ rk.Y[3] # rk.Y[1]
  /\ pop = QInt(5000)
  /\ initial_conds = <<ToFloat(<<9999, 10000>>), ToFloat(<<1, 10000>>),
                       ToFloat(<<0, 1>>)>>

----------------------------------------------------------------------------
(* Exact arithmetic on floating-point values, for stating the properties   *)
(* of runge_kutta: a * 2^(-E) is an integer when E is at most a's exponent.*)

Scaled(a, E) == IF a[1] = 0 THEN 0 ELSE a[1] * 2^(a[2] - E)

\* The least exponent among the non-zero numbers of the sequence fs.
LeastExp(fs) ==
  LET es == {fs[i][2] : i \in {j \in DOMAIN fs : fs[j][1] # 0}}
  IN  IF es = {} THEN 0 ELSE CHOOSE e \in es : \A x \in es : e <= x

\* The sum of the numbers of fs, and of their magnitudes, in units of 2^E.
RECURSIVE SumAt(_, _)
SumAt(fs, E) ==
  IF fs = <<>> THEN 0
  ELSE Scaled(Head(fs), E) + Bind2(Tail(fs), E, SumAt)

RECURSIVE AbsSumAt(_, _)
AbsSumAt(fs, E) ==
  IF fs = <<>> THEN 0
  ELSE Abs(Scaled(Head(fs), E)) + Bind2(Tail(fs), E, AbsSumAt)

\* The exact sum of the numbers of fs, as a canonical pair.
ExactSum(fs) ==
  Bind1(fs, LAMBDA v : Bind1(LeastExp(v), LAMBDA E : Canon(SumAt(v, E), E)))

\* a <= b and a < b for the exact values.
ExactLe(a, b) ==
  Bind1(LeastExp(<<a, b>>), LAMBDA E : Scaled(a, E) <= Scaled(b, E))

ExactLt(a, b) == ~ExactLe(b, a)

\* ceil((t_f - t_i) / h) for the exact values of the call's arguments.
CeilSteps(f) ==
  Bind1(LeastExp(<<f.t_start, f.t_f, f.step>>), LAMBDA E :
    (Scaled(f.t_f, E) - Scaled(f.t_start, E) + Scaled(f.step, E) - 1)
      \div Scaled(f.step, E))

\* A call of runge_kutta is under way or has returned.
InCall == rk.pc \in {"loop", "done"}

----------------------------------------------------------------------------
(* Properties of runge_kutta.                                              *)

\* C1: for t_start <= t_end and step > 0 runge_kutta makes exactly
\* ceil((t_end - t_start) / step) iterations and returns as many times as
\* states (iterations + 1); the times start at t_start, increase strictly and
\* end at t_end exactly, and the first state is the initial state.
C1_StepCountAndEndpoints ==
  InCall =>
    /\ Len(rk.X) = Len(rk.Y)
    /\ rk.X[1] = rk.t_start
    /\ rk.Y[1] = rk.arg
    /\ \A i \in 1..(Len(rk.X) - 1) : ExactLt(rk.X[i], rk.X[i + 1])
    /\ Len(rk.X) - 1 <= CeilSteps(rk)
    /\ rk.pc = "done" => /\ Len(rk.X) - 1 = CeilSteps(rk)
                         /\ rk.X[Len(rk.X)] = rk.t_f

\* The four invocations of the derivative an iteration from time t and state
\* y makes: at t, t + h/2, t + h/2, t + h for h = min(step, t_f - t), each
\* state built from the slope of the invocation before.
ExpectedCalls(f, t, y) ==
  LET h  == FMin(f.step, FSub(f.t_f, t))
      c0 == [t |-> t, y |-> y]
      c1 == [t |-> FAdd(t, FDiv(h, FromInt(2))),
             y |-> VAdd(y, VDiv(VScale(h, dydt(c0.t, c0.y)), FromInt(2)))]
      c2 == [t |-> FAdd(t, FDiv(h, FromInt(2))),
             y |-> VAdd(y, VDiv(VScale(h, dydt(c1.t, c1.y)), FromInt(2)))]
      c3 == [t |-> FAdd(t, h),
             y |-> VAdd(y, VScale(h, dydt(c2.t, c2.y)))]
  IN  <<c0, c1, c2, c3>>

\* C9: every iteration invokes the derivative four times, in the order k0, k1,
\* k2, k3, at t, t + h/2, t + h/2, t + h with h = min(step, t_end - t), each
\* stage state built from the stage before; no invocation has a time outside
\* [t_start, t_end], and there are four invocations a step in all.
C9_FourCallsWithinInterval ==
  InCall =>
    /\ Len(rk.calls) = 4 * (Len(rk.X) - 1)
    /\ \A k \in 1..(Len(rk.X) - 1) :
         SubSeq(rk.calls, 4 * k - 3, 4 * k) = ExpectedCalls(rk, rk.X[k], rk.Y[k])
    /\ \A i \in DOMAIN rk.calls :
         /\ ExactLe(rk.t_start, rk.calls[i].t)
         /\ ExactLe(rk.calls[i].t, rk.t_f)

\* The order and the count of the invocations alone.
C9_FourCallsInOrder ==
  InCall =>
    /\ Len(rk.calls) = 4 * (Len(rk.X) - 1)
    /\ \A k \in 1..(Len(rk.X) - 1) :
         SubSeq(rk.calls, 4 * k - 3, 4 * k) = ExpectedCalls(rk, rk.X[k], rk.Y[k])

\* C7: the three components of dydt sum to zero for every input, and so
\* S + I + R is the same at every point of the trajectory.
C7_SumIsConserved ==
  InCall =>
    /\ \A i \in DOMAIN rk.calls :
         ExactSum(dydt(rk.calls[i].t, rk.calls[i].y)) = <<0, 0>>
    /\ \A i \in DOMAIN rk.Y : ExactSum(rk.Y[i]) = ExactSum(rk.Y[1])

\* |dS + dI + dR| <= 2^(-Prec) * (5 |dS| + 2 |dI|) for d = dydt(t, y).
DerivativeSumIsSmall(d) ==
  Bind1(d, LAMBDA v : Bind1(LeastExp(v), LAMBDA E :
    Abs(SumAt(v, E))
      <= (5 * Abs(Scaled(v[1], E)) + 2 * Abs(Scaled(v[2], E))) \div 2^Prec))

\* The step from y to z with the slopes Ks changes the sum by at most
\* 2^(1 - Prec) * (W + |z|), W the sum of the magnitudes of K0 + 2 K1 + 2 K2
\* + K3's terms and |z| that of z's components.
DriftIsSmall(y, z, Ks) ==
  Bind1(LeastExp(y \o z \o Ks[1] \o Ks[2] \o Ks[3] \o Ks[4]), LAMBDA E :
    Abs(SumAt(z, E) - SumAt(y, E))
      <= (AbsSumAt(Ks[1] \o Ks[4], E) + 2 * AbsSumAt(Ks[2] \o Ks[3], E)
          + AbsSumAt(z, E)) \div 2^(Prec - 1))

\* C7, amended: the components of dydt sum to zero up to the rounding of its
\* floating-point operations, |dS + dI + dR| <= 2^(-p) (5 |dS| + 2 |dI|) for
\* p-bit numbers, and every step changes S + I + R by at most
\* 2^(1-p) (W + |S'| + |I'| + |R'|).
C7_SumIsConservedUpToRounding ==
  InCall =>
    /\ \A i \in DOMAIN rk.calls :
         DerivativeSumIsSmall(dydt(rk.calls[i].t, rk.calls[i].y))
    /\ Len(rk.Y) >= 2
         => DriftIsSmall(rk.Y[Len(rk.Y) - 1], rk.Y[Len(rk.Y)], rk.Ks)

\* A returned trajectory of three steps whose sum has drifted from the initial
\* one.
C7_Witness ==
  /\ rk.pc = "done"
  /\ Len(rk.Y) = 4
  /\ ExactSum(rk.Y[4]) # ExactSum(rk.Y[1])
  /\ ExactSum(rk.Y[2]) = ExactSum(rk.Y[1])

\* beta > 0, gamma > 0, S0 > 0 and I0 > 0 for the call under way.
PositiveRates ==
  /\ beta[1] > 0
  /\ gamma[1] > 0
  /\ rk.Y[1][1][1] > 0
  /\ rk.Y[1][2][1] > 0

\* R never falls from one point to the next and I is never negative.
RGrowsIStaysPositive ==
  /\ \A i \in 1..(Len(rk.Y) - 1) : ExactLe(rk.Y[i][3], rk.Y[i + 1][3])
  /\ \A i \in DOMAIN rk.Y : rk.Y[i][2][1] >= 0

\* C8: with beta, gamma, S0 and I0 positive, for any step and interval, R is
\* non-decreasing from point to point of the trajectory and I is non-negative
\* at every point.
C8_RecoveredGrows ==
  (InCall /\ PositiveRates) => RGrowsIStaysPositive

\* The product of the floating-point number a and the rational q is at most 1.
AtMostOne(a, q) ==
  IF a[2] >= 0 THEN a[1] * 2^a[2] * q[1] <= q[2]
  ELSE a[1] * q[1] <= q[2] * 2^(-a[2])

\* The step is small for the rates and the state is one of fractions:
\* step * beta <= 1, step * gamma <= 1 and S0 + I0 <= 1.
SmallStep ==
  /\ AtMostOne(rk.step, beta)
  /\ AtMostOne(rk.step, gamma)
  /\ ExactLe(ExactSum(<<rk.Y[1][1], rk.Y[1][2]>>), <<1, 0>>)

\* C8, amended: with beta, gamma, S0 and I0 positive, S0 + I0 <= 1 and a step
\* with step * beta <= 1 and step * gamma <= 1, R is non-decreasing from point
\* to point and I is non-negative at every point.
C8_RecoveredGrowsForSmallSteps ==
  (InCall /\ PositiveRates /\ SmallStep) => RGrowsIStaysPositive

\* A returned trajectory of three small steps along which R rose at every
\* step and I fell.
C8_Witness ==
  /\ rk.pc = "done"
  /\ PositiveRates
  /\ SmallStep
  /\ Len(rk.Y) = 4
  /\ \A i \in 1..3 : ExactLt(rk.Y[i][3], rk.Y[i + 1][3])
  /\ ExactLt(rk.Y[4][2], rk.Y[1][2])

====
